---------------------------- MODULE Spec2Model ----------------------------
(***************************************************************************)
(* Model of the Celery task json_timeline of openrelik-worker-hayabusa     *)
(* (src/src/json_timeline.py).  One invocation of the task is a sequential *)
(* process with a program counter; the external hayabusa process, the      *)
(* staging directories and the output artifact files are the environment   *)
(* it shares with the other invocations of the same worker host.           *)
(*                                                                         *)
(* Paths are sequences of components (<<"out", "u1">> is /out/u1);         *)
(* PathStr renders one as the string the code hands to the tool.           *)
(* Python's None is the empty tuple, a present value x is <<x>>.           *)
(*                                                                         *)
(* Calls that can raise are modelled with both outcomes: os.mkdir,         *)
(* os.link, subprocess.Popen and self.send_event.  An exception is not     *)
(* caught anywhere in the task, so it ends the invocation on the spot.     *)
(***************************************************************************)
EXTENDS Naturals, Sequences, FiniteSets, TLC

\* ------------------------------------------------------------- bounds

\* Invocations of the task that may run at the same time.
MaxInv == 2
\* Values uuid4().hex can take (a collision is possible in the model).
MaxIds == 2
\* Longest list of input files of a request.
MaxFiles == 2
\* Polls that find the process alive, per invocation.
MaxPolls == 2

Invocations == 1..MaxInv

\* ------------------------------------------------------- python values

None == << >>

Some(x) == <<x>>

\* ------------------------------------------------------ task constants

INTERVAL_SECONDS == 2

HAYABUSA == "/hayabusa/hayabusa"

OUTPUT_FILENAME == "Hayabusa_JSONL_timeline"

OUTPUT_EXTENSION == "jsonl"

OUTPUT_DATA_TYPE == "openrelik:worker:hayabusa:file:jsonl"

\* ------------------------------------------------------------- inputs

\* The caller's files: path -> inode (the content a hard link shares).
SrcFiles ==
    (<<"evidence", "a.evtx">> :> 101) @@
    (<<"evidence", "b.evtx">> :> 102) @@
    (<<"upload", "a.evtx">> :> 103)

InputFile(p) == [path |-> p]

RECURSIVE ListsUpTo(_, _)
ListsUpTo(S, n) ==
    IF n = 0 THEN {<< >>}
    ELSE LET shorter == ListsUpTo(S, n - 1)
         IN  shorter \cup {Append(l, x) : l \in {s \in shorter : Len(s) = n - 1}, x \in S}

InputLists == ListsUpTo({InputFile(p) : p \in DOMAIN SrcFiles}, MaxFiles)

\* What an upstream task hands over: its own result, or nothing.
PipeResults ==
    {None, Some([output_files |-> <<InputFile(<<"evidence", "b.evtx">>)>>])}

OutputRoot == <<"out">>

\* The arguments of one call of json_timeline.
Requests ==
    [pipe_result : PipeResults,
     input_files : InputLists,
     output_path : {OutputRoot},
     workflow_id : {"wf-1", "wf-2"},
     task_config : {{}, {"opt"}}]

\* The requests of the concurrent scenario: same output root, one file each.
ConcRequests ==
    {r \in Requests : /\ r.pipe_result = None
                      /\ r.input_files = <<InputFile(<<"evidence", "a.evtx">>)>>
                      /\ r.workflow_id = "wf-1"
                      /\ r.task_config = {}}

\* The requests of the liveness scenario: at most one file, any tool.
FairRequests ==
    {r \in Requests : /\ r.pipe_result = None
                      /\ Len(r.input_files) <= 1
                      /\ r.workflow_id = "wf-1"
                      /\ r.task_config = {}}

\* What the external binary does in a run: its exit status and what it
\* leaves at the path given with --output.
ToolBehaviours ==
    [returncode : {0, 1}, writes : {"absent", "empty", "populated"}]

NominalTool == [returncode |-> 0, writes |-> "populated"]

UUIDs == {"u" \o ToString(n) : n \in 1..MaxIds}

\* ------------------------------------------------------ pure functions

\* A slip: the first component of the path instead of the last.
BasenameHead(p) == p[1]

\* os.path.basename
Basename(p) == p[Len(p)]

\* os.path.join(a, b), and f"{a}/{b}"
PathJoin(p, name) == Append(p, name)

RECURSIVE PathStr(_)
PathStr(p) == IF p = << >> THEN "" ELSE PathStr(SubSeq(p, 1, Len(p) - 1)) \o "/" \o p[Len(p)]

\* " ".join(words)
RECURSIVE JoinSpace(_)
JoinSpace(words) ==
    IF words = << >> THEN ""
    ELSE IF Len(words) = 1 THEN words[1]
    ELSE JoinSpace(SubSeq(words, 1, Len(words) - 1)) \o " " \o words[Len(words)]

\* get_input_files(pipe_result, input_files or [])
get_input_files(pipe_result, files) ==
    IF pipe_result # None THEN pipe_result[1].output_files ELSE files

\* create_output_file: a fresh file name under output_path; nothing is
\* written to the file system.
create_output_file(output_path, i) ==
    [path         |-> PathJoin(output_path, "f" \o ToString(i) \o "." \o OUTPUT_EXTENSION),
     display_name |-> OUTPUT_FILENAME \o "." \o OUTPUT_EXTENSION,
     data_type    |-> OUTPUT_DATA_TYPE]

\* OutputFile.to_dict
to_dict(f) ==
    [path |-> PathStr(f.path), display_name |-> f.display_name, data_type |-> f.data_type]

\* A slip: the two path arguments in each other's place.
CommandSwapped(output_file_path, dir) ==
    <<HAYABUSA, "json-timeline", "--ISO-8601", "--UTC", "--no-wizard", "--quiet",
      "--JSONL-output", "--profile", "super-verbose",
      "--output", PathStr(dir), "--directory", PathStr(output_file_path)>>

\* The command list of lines 68-82.
Command(output_file_path, dir) ==
    <<HAYABUSA, "json-timeline", "--ISO-8601", "--UTC", "--no-wizard", "--quiet",
      "--JSONL-output", "--profile", "super-verbose",
      "--output", PathStr(output_file_path), "--directory", PathStr(dir)>>

\* A slip: the binary alone instead of the joined command.
task_result_unjoined(files, workflow_id, cmd) ==
    [output_files |-> files, workflow_id |-> workflow_id, command |-> cmd[1]]

\* task_result(output_files=, workflow_id=, command=)
task_result(files, workflow_id, cmd) ==
    [output_files |-> files, workflow_id |-> workflow_id, command |-> JoinSpace(cmd)]

\* ---------------------------------------------------------- file system

EmptyDir == << >>

\* A slip: os.makedirs(d, exist_ok=True).
MkdirExistOk(fs, d) ==
    IF d \in DOMAIN fs
    THEN [ok |-> TRUE, fs |-> fs]
    ELSE [ok |-> TRUE, fs |-> (d :> EmptyDir) @@ fs]

\* os.mkdir: FileExistsError when the path exists.
Mkdir(fs, d) ==
    IF d \in DOMAIN fs
    THEN [ok |-> FALSE, fs |-> fs]
    ELSE [ok |-> TRUE, fs |-> (d :> EmptyDir) @@ fs]

\* A slip: a link that replaces the entry of the same name.
LinkOverwrite(fs, src, d, name) ==
    IF d \notin DOMAIN fs \/ src \notin DOMAIN SrcFiles
    THEN [ok |-> FALSE, fs |-> fs]
    ELSE [ok |-> TRUE, fs |-> [fs EXCEPT ![d] = (name :> SrcFiles[src]) @@ fs[d]]]

\* os.link(src, f"{d}/{name}"): FileExistsError when the name is taken.
Link(fs, src, d, name) ==
    IF d \notin DOMAIN fs \/ src \notin DOMAIN SrcFiles \/ name \in DOMAIN fs[d]
    THEN [ok |-> FALSE, fs |-> fs]
    ELSE [ok |-> TRUE, fs |-> [fs EXCEPT ![d] = (name :> SrcFiles[src]) @@ fs[d]]]

\* shutil.rmtree
Rmtree(fs, d) == [p \in DOMAIN fs \ {d} |-> fs[p]]

\* A slip: the loop test inverted (process.poll() is not None).
StillRunningInverted(p) == p.status # "alive"

\* A slip: the loop waits for a zero exit status (process.poll() != 0).
RunningOrFailed(p) == p.status = "alive" \/ (p.status = "exited" /\ p.returncode # 0)

\* process.poll() is None
StillRunning(p) == p.status = "alive"

NoProcess == [status |-> "none", argv |-> << >>, returncode |-> 0]

\* The path the tool was told to write to.
ArgAfter(argv, flag) ==
    LET k == CHOOSE j \in 1..Len(argv) : argv[j] = flag IN argv[k + 1]

\* -------------------------------------------------------------- state

VARIABLES
    pc,            \* where each invocation is
    args,          \* the arguments of each call
    tool,          \* how the external binary behaves in each run
    input_files,   \* line 49
    output_files,  \* lines 50, 96
    output_file,   \* line 53
    temp_dir,      \* line 61
    linked,        \* files of input_files the loop of line 63 is done with
    command,       \* line 68
    process,       \* line 86
    polls,         \* polls that found the process alive
    events,        \* events sent on the task's event channel
    result,        \* the returned TaskResult
    error,         \* the exception that ended the invocation
    trace,         \* the lifecycle steps the invocation has completed
    dirs,          \* staging directories on disk: path -> (name -> inode)
    files          \* output artifacts on disk: path string -> "empty" | "populated"

vars == <<pc, args, tool, input_files, output_files, output_file, temp_dir, linked,
          command, process, polls, events, result, error, trace, dirs, files>>

DefaultRequest ==
    [pipe_result |-> None, input_files |-> << >>, output_path |-> OutputRoot,
     workflow_id |-> "wf-1", task_config |-> {}]

InitLocals ==
    /\ input_files = [i \in Invocations |-> << >>]
    /\ output_files = [i \in Invocations |-> << >>]
    /\ output_file = [i \in Invocations |-> None]
    /\ temp_dir = [i \in Invocations |-> None]
    /\ linked = [i \in Invocations |-> 0]
    /\ command = [i \in Invocations |-> << >>]
    /\ process = [i \in Invocations |-> NoProcess]
    /\ polls = [i \in Invocations |-> 0]
    /\ events = [i \in Invocations |-> << >>]
    /\ result = [i \in Invocations |-> None]
    /\ error = [i \in Invocations |-> ""]
    /\ trace = [i \in Invocations |-> << >>]
    /\ dirs = << >>
    /\ files = << >>

\* One task is delivered to the worker; the other slots stay idle.
Init ==
    /\ pc = [i \in Invocations |-> IF i = 1 THEN "start" ELSE "idle"]
    /\ \E r \in Requests : args = [i \in Invocations |-> IF i = 1 THEN r ELSE DefaultRequest]
    /\ \E t \in ToolBehaviours : tool = [i \in Invocations |-> IF i = 1 THEN t ELSE NominalTool]
    /\ InitLocals

\* One task as in Init, drawn from the requests of the liveness scenario.
FairInit ==
    /\ pc = [i \in Invocations |-> IF i = 1 THEN "start" ELSE "idle"]
    /\ \E r \in FairRequests : args = [i \in Invocations |-> IF i = 1 THEN r ELSE DefaultRequest]
    /\ \E t \in ToolBehaviours : tool = [i \in Invocations |-> IF i = 1 THEN t ELSE NominalTool]
    /\ InitLocals

\* Every slot of the worker runs a task, all under the same output root.
ConcInit ==
    /\ pc = [i \in Invocations |-> "start"]
    /\ args \in [Invocations -> ConcRequests]
    /\ tool = [i \in Invocations |-> NominalTool]
    /\ InitLocals

\* ------------------------------------------------------------ actions

Raise(i, exc) ==
    /\ pc' = [pc EXCEPT ![i] = "done"]
    /\ error' = [error EXCEPT ![i] = exc]

Did(i, step) == trace' = [trace EXCEPT ![i] = Append(@, step)]

\* Lines 49-50.
ResolveInputs(i) ==
    /\ pc[i] = "start"
    /\ input_files' = [input_files EXCEPT ![i] =
                          get_input_files(args[i].pipe_result, args[i].input_files)]
    /\ output_files' = [output_files EXCEPT ![i] = << >>]
    /\ pc' = [pc EXCEPT ![i] = "allocate"]
    /\ Did(i, "resolve")
    /\ UNCHANGED <<args, tool, output_file, temp_dir, linked, command, process, polls,
                   events, result, error, dirs, files>>

\* Lines 53-58.
AllocateOutput(i) ==
    /\ pc[i] = "allocate"
    /\ output_file' = [output_file EXCEPT ![i] =
                          Some(create_output_file(args[i].output_path, i))]
    /\ pc' = [pc EXCEPT ![i] = "mkdir"]
    /\ Did(i, "allocate")
    /\ UNCHANGED <<args, tool, input_files, output_files, temp_dir, linked, command,
                   process, polls, events, result, error, dirs, files>>

\* A slip: the spawn inside the loop, after the first pass.
AfterLinksEarly(i, k) == "spawn"

\* Where the loop of line 63 goes once k files are linked.
AfterLinks(i, k) == IF k = Len(input_files[i]) THEN "spawn" ELSE "link"

StagedIf(i, k) ==
    IF k = Len(input_files[i]) THEN Did(i, "stage") ELSE UNCHANGED trace

\* Lines 61-62.  The second disjunct is a failure of the environment
\* (permissions, disk full).
MakeStagingDir(i) ==
    /\ pc[i] = "mkdir"
    /\ \E u \in UUIDs :
         LET d == PathJoin(args[i].output_path, u)
             r == Mkdir(dirs, d)
         IN  /\ temp_dir' = [temp_dir EXCEPT ![i] = d]
             /\ \/ /\ r.ok
                   /\ dirs' = r.fs
                   /\ pc' = [pc EXCEPT ![i] = AfterLinks(i, 0)]
                   /\ StagedIf(i, 0)
                   /\ UNCHANGED error
                \/ /\ Raise(i, IF r.ok THEN "OSError:mkdir" ELSE "FileExistsError:mkdir")
                   /\ UNCHANGED <<dirs, trace>>
    /\ UNCHANGED <<args, tool, input_files, output_files, output_file, linked, command,
                   process, polls, events, result, files>>

\* Lines 63-65, one iteration.  The second disjunct also covers a failure
\* of the environment (cross-device link, permissions).
LinkFile(i) ==
    /\ pc[i] = "link"
    /\ linked[i] < Len(input_files[i])
    /\ LET file == input_files[i][linked[i] + 1]
           filename == Basename(file.path)
           r == Link(dirs, file.path, temp_dir[i], filename)
       IN  \/ /\ r.ok
              /\ dirs' = r.fs
              /\ linked' = [linked EXCEPT ![i] = @ + 1]
              /\ pc' = [pc EXCEPT ![i] = AfterLinks(i, linked[i] + 1)]
              /\ StagedIf(i, linked[i] + 1)
              /\ UNCHANGED error
           \/ /\ Raise(i, IF r.ok THEN "OSError:link" ELSE "FileExistsError:link")
              /\ UNCHANGED <<dirs, linked, trace>>
    /\ UNCHANGED <<args, tool, input_files, output_files, output_file, temp_dir, command,
                   process, polls, events, result, files>>

\* Lines 68-86.  Popen raises when the binary cannot be started.
Spawn(i) ==
    /\ pc[i] = "spawn"
    /\ LET cmd == Command(output_file[i][1].path, temp_dir[i])
       IN  /\ command' = [command EXCEPT ![i] = cmd]
           /\ \/ /\ process' = [process EXCEPT ![i] =
                                   [status |-> "alive", argv |-> cmd, returncode |-> 0]]
                 /\ pc' = [pc EXCEPT ![i] = "poll"]
                 /\ Did(i, "spawn")
                 /\ UNCHANGED error
              \/ /\ Raise(i, "OSError:Popen")
                 /\ UNCHANGED <<process, trace>>
    /\ UNCHANGED <<args, tool, input_files, output_files, output_file, temp_dir, linked,
                   polls, events, result, dirs, files>>

\* Line 87: the loop test.
Poll(i) ==
    /\ pc[i] = "poll"
    /\ StillRunning(process[i]) => polls[i] < MaxPolls
    /\ IF StillRunning(process[i])
       THEN /\ pc' = [pc EXCEPT ![i] = "emit"]
            /\ polls' = [polls EXCEPT ![i] = @ + 1]
            /\ UNCHANGED trace
       ELSE /\ pc' = [pc EXCEPT ![i] = "cleanup"]
            /\ Did(i, "poll")
            /\ UNCHANGED polls
    /\ UNCHANGED <<args, tool, input_files, output_files, output_file, temp_dir, linked,
                   command, process, events, result, error, dirs, files>>

\* Lines 88-89: send the event, then sleep INTERVAL_SECONDS.  send_event
\* raises when the event cannot be published.
Emit(i) ==
    /\ pc[i] = "emit"
    /\ \/ /\ events' = [events EXCEPT ![i] =
                           Append(@, [type |-> "task-progress", data |-> None])]
          /\ pc' = [pc EXCEPT ![i] = "poll"]
          /\ UNCHANGED error
       \/ /\ Raise(i, "Error:send_event")
          /\ UNCHANGED events
    /\ UNCHANGED <<args, tool, input_files, output_files, output_file, temp_dir, linked,
                   command, process, polls, result, trace, dirs, files>>

\* Lines 92-93.
Cleanup(i) ==
    /\ pc[i] = "cleanup"
    /\ dirs' = IF temp_dir[i] \in DOMAIN dirs THEN Rmtree(dirs, temp_dir[i]) ELSE dirs
    /\ pc' = [pc EXCEPT ![i] = "collect"]
    /\ Did(i, "cleanup")
    /\ UNCHANGED <<args, tool, input_files, output_files, output_file, temp_dir, linked,
                   command, process, polls, events, result, error, files>>

\* Lines 96-107.
BuildResult(i) ==
    /\ pc[i] = "collect"
    /\ LET collected == Append(output_files[i], to_dict(output_file[i][1]))
       IN  /\ output_files' = [output_files EXCEPT ![i] = collected]
           /\ pc' = [pc EXCEPT ![i] = "done"]
           /\ IF collected = << >>
              THEN /\ error' = [error EXCEPT ![i] = "RuntimeError:no output files"]
                   /\ UNCHANGED <<result, trace>>
              ELSE /\ result' = [result EXCEPT ![i] =
                                    Some(task_result(collected, args[i].workflow_id,
                                                     command[i]))]
                   /\ Did(i, "result")
                   /\ UNCHANGED error
    /\ UNCHANGED <<args, tool, input_files, output_file, temp_dir, linked, command,
                   process, polls, events, dirs, files>>

\* The external process exits, having written what it writes to the path
\* that followed --output on its command line.
ProcessExit(i) ==
    /\ process[i].status = "alive"
    /\ process' = [process EXCEPT ![i].status = "exited",
                                  ![i].returncode = tool[i].returncode]
    /\ files' = IF tool[i].writes = "absent" THEN files
                ELSE (ArgAfter(process[i].argv, "--output") :> tool[i].writes) @@ files
    /\ UNCHANGED <<pc, args, tool, input_files, output_files, output_file, temp_dir,
                   linked, command, polls, events, result, error, trace, dirs>>

Step(i) ==
    \/ ResolveInputs(i)
    \/ AllocateOutput(i)
    \/ MakeStagingDir(i)
    \/ LinkFile(i)
    \/ Spawn(i)
    \/ Poll(i)
    \/ Emit(i)
    \/ Cleanup(i)
    \/ BuildResult(i)

Next == \E i \in Invocations : Step(i) \/ ProcessExit(i)

Spec == Init /\ [][Next]_vars

ConcSpec == ConcInit /\ [][Next]_vars

\* The worker thread keeps running and the external process, when it is
\* assumed to exit, does exit.
Fairness == \A i \in Invocations : WF_vars(Step(i)) /\ WF_vars(ProcessExit(i))

FairSpec == FairInit /\ [][Next]_vars /\ Fairness


\* ------------------------------------------------------------ claims

Has(i, step) == \E k \in 1..Len(trace[i]) : trace[i][k] = step

Lifecycle == <<"resolve", "allocate", "stage", "spawn", "poll", "cleanup", "result">>

IsPrefix(s, t) == Len(s) <= Len(t) /\ SubSeq(t, 1, Len(s)) = s

StagingErrors ==
    {"OSError:mkdir", "FileExistsError:mkdir", "OSError:link", "FileExistsError:link"}

\* The base filename of the k-th input, read off the path itself.
NameOf(i, k) == input_files[i][k].path[Len(input_files[i][k].path)]

NamesOf(i, n) == {NameOf(i, k) : k \in 1..n}

DistinctNames(i) == Cardinality(NamesOf(i, Len(input_files[i]))) = Len(input_files[i])

\* The output artifact is absent or zero bytes at the allocated path.
OutputMissing(i) ==
    LET p == PathStr(output_file[i][1].path)
    IN  p \notin DOMAIN files \/ files[p] = "empty"

\* C1: when the external process has terminated and the output artifact is
\* absent or empty at the allocated path, the invocation ends with the
\* missing-output error and returns no TaskResult.
C1_MissingOutputFails ==
    \A i \in Invocations :
        (pc[i] = "done" /\ Has(i, "poll") /\ OutputMissing(i))
            => (error[i] = "RuntimeError:no output files" /\ result[i] = None)

\* C2: once an invocation that completed staging has terminated, with a
\* result or with an error of a later step, its staging directory does not
\* exist.
C2_StagingRemoved ==
    \A i \in Invocations :
        (pc[i] = "done" /\ Has(i, "stage")) => temp_dir[i] \notin DOMAIN dirs

\* C3: with N inputs of pairwise distinct base filenames, once staging has
\* completed the staging directory holds exactly N entries, one per input,
\* named by the input's base filename and linked to the input's inode.
C3_StagingComplete ==
    \A i \in Invocations :
        (Has(i, "stage") /\ ~Has(i, "cleanup") /\ DistinctNames(i))
            => /\ temp_dir[i] \in DOMAIN dirs
               /\ DOMAIN dirs[temp_dir[i]] = NamesOf(i, Len(input_files[i]))
               /\ Cardinality(DOMAIN dirs[temp_dir[i]]) = Len(input_files[i])
               /\ \A k \in 1..Len(input_files[i]) :
                      dirs[temp_dir[i]][NameOf(i, k)] = SrcFiles[input_files[i][k].path]

\* Staging of a full list of distinct names has just completed.
C3_Witness ==
    \E i \in Invocations :
        /\ pc[i] = "spawn"
        /\ Len(input_files[i]) = MaxFiles
        /\ DistinctNames(i)
        /\ Cardinality(DOMAIN dirs[temp_dir[i]]) = MaxFiles

\* An invocation that has created its staging directory and has yet to
\* populate it, hand it to the tool or remove it.
Owns(i) == pc[i] \in {"link", "spawn", "poll", "emit", "cleanup"}

\* An invocation whose directory is in use, by itself or by its tool.
Uses(i) == Owns(i) \/ process[i].status = "alive"

\* C4: concurrent invocations under one output root never share a staging
\* directory: the directory an invocation owns exists, holds exactly the
\* links that invocation made, and is the directory of no other invocation
\* that populates one, has a tool running on one or is about to remove one.
C4_DisjointStaging ==
    \A i \in Invocations :
        Owns(i) =>
            /\ temp_dir[i] \in DOMAIN dirs
            /\ DOMAIN dirs[temp_dir[i]] = NamesOf(i, linked[i])
            /\ \A j \in Invocations \ {i} : Uses(j) => temp_dir[j] # temp_dir[i]

\* Two invocations drew the same identifier while the first was running.
C4_Witness ==
    \E i, j \in Invocations :
        /\ i # j
        /\ pc[i] = "poll"
        /\ error[j] = "FileExistsError:mkdir"
        /\ temp_dir[j] = temp_dir[i]

\* C5: the command built and spawned is the fixed argument sequence with P
\* the path of this invocation's output artifact and D this invocation's
\* staging directory, whatever the inputs, workflow id and task_config.
C5_CommandFixed ==
    \A i \in Invocations :
        /\ command[i] # << >> =>
              command[i] = <<"/hayabusa/hayabusa", "json-timeline", "--ISO-8601", "--UTC",
                             "--no-wizard", "--quiet", "--JSONL-output", "--profile",
                             "super-verbose", "--output", PathStr(output_file[i][1].path),
                             "--directory", PathStr(temp_dir[i])>>
        /\ process[i].status # "none" => process[i].argv = command[i]
        /\ process[i].status = "alive" => temp_dir[i] \in DOMAIN dirs

\* A process runs for a request with a config, the second workflow id and a
\* full input list, on the second identifier.
C5_Witness ==
    \E i \in Invocations :
        /\ process[i].status = "alive"
        /\ Len(input_files[i]) = MaxFiles
        /\ args[i].workflow_id = "wf-2"
        /\ args[i].task_config # {}
        /\ process[i].argv[11] = "/out/f1.jsonl"
        /\ process[i].argv[13] = "/out/u2"

\* Every event sent is a 'task-progress' event with no payload, and none is
\* sent before the spawn.
ProgressEventsOnly(i) ==
    /\ \A k \in 1..Len(events[i]) : events[i][k] = [type |-> "task-progress", data |-> None]
    /\ events[i] # << >> => Has(i, "spawn")

\* C6 as stated: one event per poll that finds the process alive, the poll
\* loop is not left while the process is alive, no event after a poll has
\* observed the process terminated.
C6_Original ==
    \A i \in Invocations :
        /\ ProgressEventsOnly(i)
        /\ Len(events[i]) = IF pc[i] = "emit" THEN polls[i] - 1 ELSE polls[i]
        /\ (Has(i, "spawn") /\ pc[i] \notin {"poll", "emit"})
              => (Has(i, "poll") /\ process[i].status = "exited")

\* C6, amended: one event per poll that finds the process alive, except a
\* poll whose send_event raises; the poll loop is left only after a poll
\* has observed the process terminated, or by the error send_event raised,
\* which ends the invocation; no event after the termination was observed.
C6_Amended ==
    \A i \in Invocations :
        /\ ProgressEventsOnly(i)
        /\ Len(events[i]) = IF pc[i] = "emit" \/ error[i] = "Error:send_event"
                            THEN polls[i] - 1 ELSE polls[i]
        /\ (Has(i, "spawn") /\ pc[i] \notin {"poll", "emit"})
              => \/ Has(i, "poll") /\ process[i].status = "exited"
                 \/ pc[i] = "done" /\ error[i] = "Error:send_event" /\ ~Has(i, "cleanup")
        /\ Has(i, "poll") => process[i].status = "exited"

\* The loop was left after the most polls the bound allows, each with its event.
C6_Witness ==
    \E i \in Invocations :
        /\ Has(i, "poll")
        /\ Len(events[i]) = MaxPolls
        /\ polls[i] = MaxPolls

\* The string the space-joined command of invocation i must be.
ExpectedCommandString(i) ==
    "/hayabusa/hayabusa json-timeline --ISO-8601 --UTC --no-wizard --quiet"
    \o " --JSONL-output --profile super-verbose --output "
    \o process[i].argv[11] \o " --directory " \o process[i].argv[13]

\* C7: an invocation that returns returns a TaskResult with exactly one
\* output descriptor, that of the artifact it allocated, the caller's
\* workflow id, and the space-joined command that was spawned; an
\* invocation ends with a result or with an error, never both.
C7_ResultShape ==
    \A i \in Invocations :
        /\ result[i] # None =>
              /\ Len(result[i][1].output_files) = 1
              /\ result[i][1].output_files[1].path = PathStr(output_file[i][1].path)
              /\ result[i][1].output_files[1].path = process[i].argv[11]
              /\ result[i][1].output_files[1].data_type = OUTPUT_DATA_TYPE
              /\ result[i][1].workflow_id = args[i].workflow_id
              /\ result[i][1].command = ExpectedCommandString(i)
              /\ error[i] = ""
        /\ pc[i] = "done" => (result[i] # None) # (error[i] # "")

\* A result was returned for the second workflow id.
C7_Witness ==
    \E i \in Invocations :
        /\ pc[i] = "done"
        /\ result[i] # None
        /\ args[i].workflow_id = "wf-2"
        /\ Len(input_files[i]) = MaxFiles

\* C8: when os.mkdir or an os.link fails the invocation is over with that
\* error: no process, no event, no result, and the inputs after the failed
\* one are not linked.  Two inputs of the same base filename make the
\* second link fail and leave the first link as it was.
C8_StagingFailureStops ==
    \A i \in Invocations :
        /\ error[i] \in StagingErrors =>
              /\ pc[i] = "done"
              /\ process[i].status = "none"
              /\ command[i] = << >>
              /\ events[i] = << >>
              /\ result[i] = None
              /\ ~Has(i, "stage")
        /\ error[i] \in {"OSError:mkdir", "FileExistsError:mkdir"} => linked[i] = 0
        /\ error[i] \in {"OSError:link", "FileExistsError:link"} =>
              /\ linked[i] < Len(input_files[i])
              /\ DOMAIN dirs[temp_dir[i]] = NamesOf(i, linked[i])
              /\ Cardinality(DOMAIN dirs[temp_dir[i]]) = linked[i]
              /\ \A k \in 1..linked[i] :
                     dirs[temp_dir[i]][NameOf(i, k)] = SrcFiles[input_files[i][k].path]
        /\ Has(i, "stage") => DistinctNames(i)

\* The second of two inputs of the same base filename failed to link.
C8_Witness ==
    \E i \in Invocations :
        /\ error[i] = "FileExistsError:link"
        /\ linked[i] = 1
        /\ Len(input_files[i]) = MaxFiles
        /\ NameOf(i, 2) = NameOf(i, 1)
        /\ input_files[i][2] # input_files[i][1]

\* C9: the steps are taken in the order resolve, allocate, stage, spawn,
\* poll, cleanup, result, all of them on a run that returns; the process
\* runs only with the output allocated and every link in place; the
\* staging directory is removed only after the process was seen
\* terminated, and the result is built only after the removal.
C9_LifecycleOrder ==
    \A i \in Invocations :
        /\ IsPrefix(trace[i], Lifecycle)
        /\ result[i] # None => trace[i] = Lifecycle
        /\ process[i].status # "none" =>
              /\ output_file[i] # None
              /\ linked[i] = Len(input_files[i])
              /\ Has(i, "stage")
        /\ process[i].status = "alive" =>
              /\ temp_dir[i] \in DOMAIN dirs
              /\ Cardinality(DOMAIN dirs[temp_dir[i]]) = Len(input_files[i])
        /\ Has(i, "cleanup") <=>
              (Has(i, "stage") /\ temp_dir[i] \notin DOMAIN dirs)
        /\ Has(i, "cleanup") => process[i].status = "exited"
        /\ result[i] # None => temp_dir[i] \notin DOMAIN dirs

\* A run returned after at least one progress event.
C9_Witness ==
    \E i \in Invocations :
        /\ result[i] # None
        /\ trace[i] = Lifecycle
        /\ Len(events[i]) > 0
        /\ Len(input_files[i]) > 0

=============================================================================
